---------------------------- MODULE Spec2Model ----------------------------
(***************************************************************************)
(* Model of scripts/useful_utilities.py: five helpers that drive the       *)
(* Cubit host through cubit.cmd() and the host's query functions.          *)
(*                                                                         *)
(* A Python string is modelled as the sequence of its characters (each a   *)
(* one-character TLA+ string); Text() renders such a sequence as a TLA+    *)
(* string so that command texts can be read in the log.                    *)
(***************************************************************************)
EXTENDS Integers, Sequences, FiniteSets, TLC

(***************************************************************************)
(* Bounds of the model.                                                    *)
(***************************************************************************)
MaxLen == 3          \* longest id list handed to list_to_str
MaxStrId == 12       \* largest id handed to list_to_str (two digits)
MaxVols == 3         \* most volumes in the host's model
MaxTol == 2          \* tolerances a caller may choose besides the defaults
MaxCalls == 4        \* operations in one run of the group helpers
MaxFaces == 2        \* most surfaces, and most curves, in the host's model

(***************************************************************************)
(* Program constants.  Tolerances are fixed-point numbers: the max gap in  *)
(* units of 0.0001 and the max angle in units of 0.1 degree.               *)
(***************************************************************************)
DefaultMaxGap == 5       \* max_gap=0.0005
DefaultMaxAngle == 50    \* max_angle=5.0
ExampleId == 40          \* the docstring's part_40: an id of two digits

VARIABLES
  \* the program
  pc,          \* position of the running call: "idle", a label, "returned", "raised"
  args,        \* arguments of the running (or last) call
  out,         \* value returned (and text printed) by the last call
  log,         \* host API calls made by the running (or last) call, in order
  V,           \* the id list the running call iterates over (V, G or S in the code)
  i,           \* index in V of the current iteration
  vid,         \* imprint_merge_each_group: volumes of the current group
  spline_surf, \* color_spline_surfaces: spline surfaces found so far
  \* the host
  volumes,     \* volume ids, in the order get_entities("volume") returns them
  groups,      \* groups, in the order get_entities("group") returns them
  surfaces,    \* surfaces: records [id, type], in enumeration order
  curves,      \* curves: records [id, type], in enumeration order
  colors,      \* colour of each surface id
  imprinted,   \* volumes an imprint command has acted on
  merged,      \* volumes a merge command has acted on
  max_gap,     \* global overlap tolerance: max gap
  max_angle,   \* global overlap tolerance: max angle
  \* bookkeeping of the run
  ncalls,      \* operations started so far
  clean,       \* the last group build started on a model without groups, and
               \* no other host operation has touched a group since
  tol_before   \* <<max_gap, max_angle>> of the host when the last overlap call began

progVars == <<pc, args, out, log, V, i, vid, spline_surf>>
geomVars == <<volumes, groups, surfaces, curves, colors, imprinted, merged>>
hostVars == <<geomVars, max_gap, max_angle>>
bookVars == <<ncalls, clean, tol_before>>
vars == <<progVars, hostVars, bookVars>>

(***************************************************************************)
(* Strings.                                                                *)
(***************************************************************************)
Digit == <<"0", "1", "2", "3", "4", "5", "6", "7", "8", "9">>

\* Python's str() of a non-negative int: its decimal digits.
RECURSIVE str(_)
str(n) == IF n < 10 THEN <<Digit[n + 1]>>
          ELSE Append(str(n \div 10), Digit[(n % 10) + 1])

\* sep.join(L) for a list L of strings.
RECURSIVE Join(_, _)
Join(sep, L) == IF L = <<>> THEN <<>>
                ELSE IF Len(L) = 1 THEN L[1]
                ELSE L[1] \o <<sep>> \o Join(sep, Tail(L))

\* The text of a character sequence (what an f-string interpolates).
RECURSIVE TextFrom(_, _)
TextFrom(chars, k) ==
  IF k > Len(chars) THEN "" ELSE chars[k] \o TextFrom(chars, k + 1)
Text(chars) == TextFrom(chars, 1)

\* A plausible slip: every id followed by a space.
list_to_str_trailing(input_str) ==
  Join(" ", [k \in 1..Len(input_str) |-> str(input_str[k])])
    \o (IF input_str = <<>> THEN <<>> ELSE <<" ">>)

\* list_to_str: " ".join([str(val) for val in input_str])
list_to_str(input_str) ==
  Join(" ", [k \in 1..Len(input_str) |-> str(input_str[k])])

(***************************************************************************)
(* Specification of list_to_str alone: the input is any flat list of ids.  *)
(***************************************************************************)
SeqsUpTo(S, n) == UNION {[1..k -> S] : k \in 0..n}

\* A host without entities and a program that has not been called.
NotCalled == pc = "idle" /\ args = [fn |-> "none"] /\ out = <<>>
NoLocals == log = <<>> /\ V = <<>> /\ i = 0 /\ vid = <<>> /\ spline_surf = <<>>
NoGroups == groups = <<>> /\ imprinted = {} /\ merged = {}
NoFaces == surfaces = <<>> /\ curves = <<>> /\ colors = <<>>
NoGeometry == volumes = <<>> /\ NoGroups /\ NoFaces
FactoryTolerances == max_gap = DefaultMaxGap /\ max_angle = DefaultMaxAngle
NoBookkeeping == ncalls = 0 /\ clean = FALSE /\ tol_before = <<>>

StrInit ==
  /\ pc = "idle"
  /\ args \in {[fn |-> "list_to_str", input_str |-> ids] :
                  ids \in SeqsUpTo(0..MaxStrId, MaxLen)}
  /\ out = <<>>
  /\ NoLocals /\ NoGeometry /\ FactoryTolerances /\ NoBookkeeping

ListToStrCall ==
  /\ pc = "idle"
  /\ out' = list_to_str(args.input_str)
  /\ pc' = "returned"
  /\ UNCHANGED <<args, log, V, i, vid, spline_surf, hostVars, bookVars>>

(***************************************************************************)
(* Helpers shared by the calls.                                            *)
(***************************************************************************)
\* An optional argument: None when omitted, <<x>> when given.
None == <<>>
Given(S) == {None} \cup {<<x>> : x \in S}
OrDefault(opt, default) == IF opt = None THEN default ELSE opt[1]

\* The sequences without repetition over the elements of seq q.
Range(q) == {q[k] : k \in 1..Len(q)}
Injective(q) == \A a, b \in 1..Len(q) : q[a] = q[b] => a = b
Orderings(S) == {q \in SeqsUpTo(S, Cardinality(S)) : Injective(q)}

\* The host's k-th volume id: small ids, and the docstring's two-digit id last.
VolumeIdOf(k) == IF k = MaxVols THEN ExampleId ELSE k
VolumeLists == {[k \in 1..n |-> VolumeIdOf(k)] : n \in 0..MaxVols}

\* A call may start when none is running; an uncaught error ends the script.
CanCall == pc \in {"idle", "returned"}

\* cubit.cmd(text), as the log records it, with the host's response: the
\* command ran, or the host raised an error.
CmdRan(text) == log' = Append(log, [api |-> "cmd", text |-> text, raised |-> FALSE])
CmdRaised(text) == log' = Append(log, [api |-> "cmd", text |-> text, raised |-> TRUE])
Cmds(l) == SelectSeq(l, LAMBDA e : e.api = "cmd")

(***************************************************************************)
(* batch_remove_overlaps_from_volume(modify_volume_id, max_gap, max_angle) *)
(***************************************************************************)
GapValues == (1..MaxTol) \cup {DefaultMaxGap}
AngleValues == (1..MaxTol) \cup {DefaultMaxAngle}

\* What the host may answer to get_overlapping_volumes_at_volume(t, volumes).
OverlapAnswers(t) == Orderings(Range(volumes) \ {t})

\* A plausible slip: the overlapping volume is the one modified.
RemoveOverlapTextSwapped(v, t) ==
  "remove overlap volume " \o Text(str(v)) \o " " \o Text(str(t))
    \o " modify volume " \o Text(str(v))

\* f"remove overlap volume {vid} {modify_volume_id} modify volume {modify_volume_id}"
RemoveOverlapText(v, t) ==
  "remove overlap volume " \o Text(str(v)) \o " " \o Text(str(t))
    \o " modify volume " \o Text(str(t))

\* The call binds its parameters; an omitted tolerance takes its default.
OverlapCall(t, g, a) ==
  /\ CanCall
  /\ args' = [fn |-> "batch_remove_overlaps_from_volume", modify_volume_id |-> t, 
              given_gap |-> g, given_angle |-> a,
              max_gap |-> OrDefault(g, DefaultMaxGap),
              max_angle |-> OrDefault(a, DefaultMaxAngle)]
  /\ pc' = "ov_set_gap"
  /\ log' = <<>> /\ V' = <<>> /\ i' = 0
  /\ tol_before' = <<max_gap, max_angle>>
  /\ UNCHANGED <<out, vid, spline_surf, hostVars, ncalls, clean>>

\* A plausible slip: an omitted max_gap leaves the host's setting alone.
OverlapSetGapIfGiven ==
  /\ pc = "ov_set_gap"
  /\ max_gap' = IF args.given_gap = None THEN max_gap ELSE args.max_gap
  /\ log' = Append(log, [api |-> "set_overlap_max_gap", value |-> max_gap'])
  /\ pc' = "ov_set_angle"
  /\ UNCHANGED <<args, out, V, i, vid, spline_surf, geomVars, max_angle,
                 bookVars>>

\* cubit.set_overlap_max_gap( max_gap )
OverlapSetGap ==
  /\ pc = "ov_set_gap"
  /\ max_gap' = args.max_gap
  /\ log' = Append(log, [api |-> "set_overlap_max_gap", value |-> args.max_gap])
  /\ pc' = "ov_set_angle"
  /\ UNCHANGED <<args, out, V, i, vid, spline_surf, geomVars, max_angle, bookVars>>

\* cubit.set_overlap_max_angle( max_angle )
OverlapSetAngle ==
  /\ pc = "ov_set_angle"
  /\ max_angle' = args.max_angle
  /\ log' = Append(log, [api |-> "set_overlap_max_angle", value |-> args.max_angle])
  /\ pc' = "ov_query"
  /\ UNCHANGED <<args, out, V, i, vid, spline_surf, geomVars, max_gap, bookVars>>

\* V = cubit.get_overlapping_volumes_at_volume( modify_volume_id, get_entities("volume") )
OverlapQuery ==
  /\ pc = "ov_query"
  /\ \E answer \in OverlapAnswers(args.modify_volume_id) : V' = answer
  /\ i' = 1
  /\ log' = log \o <<[api |-> "get_entities", kind |-> "volume"],
                     [api |-> "get_overlapping_volumes_at_volume",
                      target |-> args.modify_volume_id]>>
  /\ pc' = "ov_loop"
  /\ UNCHANGED <<args, out, vid, spline_surf, hostVars, bookVars>>

\* A plausible slip: the tolerance is set anew in every iteration.
OverlapRemoveSettingGap ==
  /\ pc = "ov_loop"
  /\ i <= Len(V)
  /\ log' = log \o <<[api |-> "set_overlap_max_gap", value |-> args.max_gap],
                     [api |-> "cmd", raised |-> FALSE,
                      text |-> RemoveOverlapText(V[i], args.modify_volume_id)]>>
  /\ i' = i + 1 /\ pc' = pc
  /\ UNCHANGED <<args, out, V, vid, spline_surf, hostVars, bookVars>>

\* for vid in V: cubit.cmd( f"remove overlap volume ..." ); the host may raise.
OverlapRemove ==
  /\ pc = "ov_loop"
  /\ i <= Len(V)
  /\ LET text == RemoveOverlapText(V[i], args.modify_volume_id) IN
     \/ CmdRan(text) /\ i' = i + 1 /\ pc' = pc
     \/ CmdRaised(text) /\ i' = i /\ pc' = "raised"
  /\ UNCHANGED <<args, out, V, vid, spline_surf, hostVars, bookVars>>

OverlapReturn ==
  /\ pc = "ov_loop"
  /\ i > Len(V)
  /\ pc' = "returned"
  /\ UNCHANGED <<args, out, log, V, i, vid, spline_surf, hostVars, bookVars>>

OverlapInit ==
  /\ NotCalled
  /\ NoLocals
  /\ volumes \in VolumeLists \ {<<>>}
  /\ NoGroups /\ NoFaces
  /\ max_gap \in GapValues /\ max_angle \in AngleValues
  /\ NoBookkeeping

OverlapNext ==
  \/ \E t \in Range(volumes), g \in Given(GapValues), a \in Given(AngleValues) :
       OverlapCall(t, g, a)
  \/ OverlapSetGap
  \/ OverlapSetAngle
  \/ OverlapQuery
  \/ OverlapRemove
  \/ OverlapReturn

SpecOverlap == OverlapInit /\ [][OverlapNext]_vars

(***************************************************************************)
(* The host's groups.  A group is [id, name, volumes, surfaces]; the       *)
(* member lists are in the order the host returns them.                    *)
(***************************************************************************)
GroupNames(gs) == {gs[k].name : k \in 1..Len(gs)}
GroupNamed(gs, name) == CHOOSE k \in 1..Len(gs) : gs[k].name = name

\* cubit.get_entities("group")
GroupIds(gs) == [k \in 1..Len(gs) |-> gs[k].id]

\* cubit.get_group_volumes(gid)
GroupVolumes(gs, gid) ==
  LET k == CHOOSE k \in 1..Len(gs) : gs[k].id = gid IN gs[k].volumes

\* cubit.get_id_from_name(name): 0 when no entity has the name
IdFromName(gs, name) ==
  IF name \in GroupNames(gs) THEN gs[GroupNamed(gs, name)].id ELSE 0

NewGroupId(gs) ==
  IF gs = <<>> THEN 1
  ELSE 1 + (CHOOSE m \in Range(GroupIds(gs)) : \A n \in Range(GroupIds(gs)) : n <= m)

\* "create group '<name>'": a new empty group.  For a name already in use the
\* host either rejects the command or overwrites the group.
CreateGroupOutcomes(gs, name) ==
  IF name \notin GroupNames(gs)
  THEN {Append(gs, [id |-> NewGroupId(gs), name |-> name,
                    volumes |-> <<>>, surfaces |-> <<>>])}
  ELSE {gs, [gs EXCEPT ![GroupNamed(gs, name)].volumes = <<>>,
                       ![GroupNamed(gs, name)].surfaces = <<>>]}

\* "<name> add volume <v>"
GroupAddVolume(gs, name, v) ==
  IF name \notin GroupNames(gs) THEN gs
  ELSE LET k == GroupNamed(gs, name) IN
       IF v \in Range(gs[k].volumes) THEN gs
       ELSE [gs EXCEPT ![k].volumes = Append(@, v)]

\* "<name> add surface <ids>": an empty id list is no command the host accepts.
GroupAddSurfaces(gs, name, ids) ==
  IF name \notin GroupNames(gs) \/ ids = <<>> THEN gs
  ELSE LET k == GroupNamed(gs, name) IN
       [gs EXCEPT ![k].surfaces =
          @ \o SelectSeq(ids, LAMBDA x : x \notin Range(gs[k].surfaces))]

\* "delete <name>"
DeleteGroup(gs, name) == SelectSeq(gs, LAMBDA g : g.name # name)

(***************************************************************************)
(* part_volumes_to_part_groups(prefix=None)                                *)
(***************************************************************************)
Prefixes == {"component"}

\* A plausible slip: the id is left out of the name.
GroupNameWithoutId(prefix, v) == prefix \o "_"

\* f"{prefix}_{vid}"
GroupName(prefix, v) == prefix \o "_" \o Text(str(v))

\* f"create group '{prefix}_{vid}'"
CreateGroupText(prefix, v) == "create group '" \o GroupName(prefix, v) \o "'"

\* A plausible slip: the default name is used whatever the prefix.
AddVolumeTextToPart(prefix, v) ==
  GroupName("part", v) \o " add volume " \o Text(str(v))

\* f"{prefix}_{vid} add volume {vid}"
AddVolumeText(prefix, v) == GroupName(prefix, v) \o " add volume " \o Text(str(v))

\* if prefix == None: prefix = "part";  V = cubit.get_entities("volume")
PartCall(p) ==
  /\ CanCall
  /\ ncalls < MaxCalls
  /\ ncalls' = ncalls + 1
  /\ args' = [fn |-> "part_volumes_to_part_groups", given_prefix |-> p,
              prefix |-> OrDefault(p, "part")]
  /\ V' = volumes /\ i' = 1
  /\ log' = <<[api |-> "get_entities", kind |-> "volume"]>>
  /\ pc' = "part_create"
  /\ clean' = (groups = <<>>)
  /\ UNCHANGED <<out, vid, spline_surf, hostVars, tol_before>>

\* cubit.cmd(f"create group '{prefix}_{vid}'"); the host may raise.
PartCreate ==
  /\ pc = "part_create"
  /\ i <= Len(V)
  /\ \/ /\ CmdRan(CreateGroupText(args.prefix, V[i]))
        /\ \E gs \in CreateGroupOutcomes(groups, GroupName(args.prefix, V[i])) :
             groups' = gs
        /\ pc' = "part_add"
     \/ /\ CmdRaised(CreateGroupText(args.prefix, V[i]))
        /\ groups' = groups
        /\ pc' = "raised"
  /\ UNCHANGED <<args, out, V, i, vid, spline_surf, volumes, surfaces, curves,
                 colors, imprinted, merged, max_gap, max_angle, bookVars>>

\* A plausible slip: a failed command is caught and the loop goes on.
PartAddCatching ==
  /\ pc = "part_add"
  /\ \/ /\ CmdRan(AddVolumeText(args.prefix, V[i]))
        /\ groups' = GroupAddVolume(groups, GroupName(args.prefix, V[i]), V[i])
     \/ /\ CmdRaised(AddVolumeText(args.prefix, V[i]))
        /\ groups' = groups
  /\ i' = i + 1
  /\ pc' = "part_create"
  /\ UNCHANGED <<args, out, V, vid, spline_surf, volumes, surfaces, curves,
                 colors, imprinted, merged, max_gap, max_angle, bookVars>>

\* cubit.cmd(f"{prefix}_{vid} add volume {vid}"); the host may raise.
PartAdd ==
  /\ pc = "part_add"
  /\ \/ /\ CmdRan(AddVolumeText(args.prefix, V[i]))
        /\ groups' = GroupAddVolume(groups, GroupName(args.prefix, V[i]), V[i])
        /\ i' = i + 1
        /\ pc' = "part_create"
     \/ /\ CmdRaised(AddVolumeText(args.prefix, V[i]))
        /\ groups' = groups
        /\ i' = i
        /\ pc' = "raised"
  /\ UNCHANGED <<args, out, V, vid, spline_surf, volumes, surfaces, curves,
                 colors, imprinted, merged, max_gap, max_angle, bookVars>>

PartReturn ==
  /\ pc = "part_create"
  /\ i > Len(V)
  /\ pc' = "returned"
  /\ UNCHANGED <<args, out, log, V, i, vid, spline_surf, hostVars, bookVars>>

(***************************************************************************)
(* imprint_merge_each_group()                                              *)
(***************************************************************************)
\* f"imprint vol {list_to_str(vid)}"
ImprintText(ids) == "imprint vol " \o Text(list_to_str(ids))

\* f"merge vol {list_to_str(vid)}"
MergeText(ids) == "merge vol " \o Text(list_to_str(ids))

\* A plausible slip: >= instead of >.
NeedsImprintFromOne(ids) == Len(ids) >= 1

\* if len(vid)>1:
NeedsImprint(ids) == Len(ids) > 1

\* G = cubit.get_entities("group")
ImprintCall ==
  /\ CanCall
  /\ ncalls < MaxCalls
  /\ ncalls' = ncalls + 1
  /\ args' = [fn |-> "imprint_merge_each_group"]
  /\ V' = GroupIds(groups) /\ i' = 1 /\ vid' = <<>>
  /\ log' = <<[api |-> "get_entities", kind |-> "group"]>>
  /\ pc' = "im_loop"
  /\ UNCHANGED <<out, spline_surf, hostVars, clean, tol_before>>

\* vid = cubit.get_group_volumes(gid);  if len(vid)>1:
ImprintLoop ==
  /\ pc = "im_loop"
  /\ i <= Len(V)
  /\ vid' = GroupVolumes(groups, V[i])
  /\ log' = Append(log, [api |-> "get_group_volumes", gid |-> V[i]])
  /\ IF NeedsImprint(vid')
     THEN pc' = "im_imprint" /\ i' = i
     ELSE pc' = "im_loop" /\ i' = i + 1
  /\ UNCHANGED <<args, out, V, spline_surf, hostVars, bookVars>>

\* cubit.cmd(f"imprint vol {list_to_str(vid)}"); the host may raise.
ImprintImprint ==
  /\ pc = "im_imprint"
  /\ \/ CmdRan(ImprintText(vid)) /\ imprinted' = imprinted \cup Range(vid)
          /\ pc' = "im_merge"
     \/ CmdRaised(ImprintText(vid)) /\ imprinted' = imprinted /\ pc' = "raised"
  /\ UNCHANGED <<args, out, V, i, vid, spline_surf, volumes, groups, surfaces,
                 curves, colors, merged, max_gap, max_angle, bookVars>>

\* cubit.cmd(f"merge vol {list_to_str(vid)}"); the host may raise.
ImprintMerge ==
  /\ pc = "im_merge"
  /\ \/ CmdRan(MergeText(vid)) /\ merged' = merged \cup Range(vid)
          /\ i' = i + 1 /\ pc' = "im_loop"
     \/ CmdRaised(MergeText(vid)) /\ merged' = merged /\ i' = i /\ pc' = "raised"
  /\ UNCHANGED <<args, out, V, vid, spline_surf, volumes, groups, surfaces,
                 curves, colors, imprinted, max_gap, max_angle, bookVars>>

ImprintReturn ==
  /\ pc = "im_loop"
  /\ i > Len(V)
  /\ pc' = "returned"
  /\ UNCHANGED <<args, out, log, V, i, vid, spline_surf, hostVars, bookVars>>

(***************************************************************************)
(* Another host operation between two calls (a webcut, a user's command)   *)
(* puts a further volume into a group.  The record of the last call is     *)
(* dropped: it describes a host that has changed since.                    *)
(***************************************************************************)
HostOtherAdd(k, v) ==
  /\ CanCall
  /\ ncalls < MaxCalls
  /\ ncalls' = ncalls + 1
  /\ v \notin Range(groups[k].volumes)
  /\ groups' = [groups EXCEPT ![k].volumes = Append(@, v)]
  /\ clean' = FALSE
  /\ pc' = "idle" /\ args' = [fn |-> "none"] /\ log' = <<>>
  /\ UNCHANGED <<out, V, i, vid, spline_surf, volumes, surfaces, curves, colors,
                 imprinted, merged, max_gap, max_angle, tol_before>>

\* The model holds no group, or one group of all its volumes.
GroupsInit ==
  /\ NotCalled
  /\ NoLocals
  /\ volumes \in VolumeLists
  /\ groups \in {<<>>, <<[id |-> 1, name |-> "assembly",
                          volumes |-> volumes, surfaces |-> <<>>]>>}
  /\ imprinted = {} /\ merged = {}
  /\ NoFaces /\ FactoryTolerances /\ NoBookkeeping

GroupsNext ==
  \/ \E p \in Given(Prefixes) : PartCall(p)
  \/ PartCreate
  \/ PartAdd
  \/ PartReturn
  \/ ImprintCall
  \/ ImprintLoop
  \/ ImprintImprint
  \/ ImprintMerge
  \/ ImprintReturn
  \/ \E k \in 1..Len(groups), v \in Range(volumes) : HostOtherAdd(k, v)

SpecGroups == GroupsInit /\ [][GroupsNext]_vars

(***************************************************************************)
(* Type labels.  The host names an entity's type by a string, which the    *)
(* code lower-cases before it compares it.                                 *)
(***************************************************************************)
UpperCase == <<"A", "B", "C", "D", "E", "F", "G", "H", "I", "J", "K", "L", "M",
               "N", "O", "P", "Q", "R", "S", "T", "U", "V", "W", "X", "Y", "Z">>
LowerCase == <<"a", "b", "c", "d", "e", "f", "g", "h", "i", "j", "k", "l", "m",
               "n", "o", "p", "q", "r", "s", "t", "u", "v", "w", "x", "y", "z">>

\* The lower-case letter of each capital.
ToLower ==
  [c \in {UpperCase[n] : n \in 1..Len(UpperCase)} |->
     LowerCase[CHOOSE n \in 1..Len(UpperCase) : UpperCase[n] = c]]

\* Python's str.lower(), character by character.
lower(s) ==
  [k \in 1..Len(s) |-> IF s[k] \in DOMAIN ToLower THEN ToLower[s[k]] ELSE s[k]]

\* The labels the host hands out in this model: the known ones, one in
\* capitals, and one the code does not know.
SurfaceWord == <<"s", "u", "r", "f", "a", "c", "e">>
CurveWord == <<"c", "u", "r", "v", "e">>
SplineWord == <<"s", "p", "l", "i", "n", "e">>
SurfaceLabels ==
  { <<"p", "l", "a", "n", "e", " ">> \o SurfaceWord,
    <<"c", "o", "n", "e", " ">> \o SurfaceWord,
    <<"s", "p", "h", "e", "r", "e", " ">> \o SurfaceWord,
    <<"t", "o", "r", "u", "s", " ">> \o SurfaceWord,
    SplineWord \o <<" ">> \o SurfaceWord,
    <<"S", "p", "l", "i", "n", "e", " ", "S">> \o Tail(SurfaceWord),
    <<"b", "e", "s", "t", " ", "f", "i", "t", " ">> \o SurfaceWord }
CurveLabels ==
  { <<"s", "t", "r", "a", "i", "g", "h", "t", " ">> \o CurveWord,
    <<"a", "r", "c", " ">> \o CurveWord,
    <<"e", "l", "l", "i", "p", "s", "e", " ">> \o CurveWord,
    SplineWord \o <<" ">> \o CurveWord,
    <<"A", "r", "c", " ", "C">> \o Tail(CurveWord),
    <<"h", "e", "l", "i", "x", " ">> \o CurveWord }

\* Entity lists: the k-th entity has id k and any label.
EntityLists(labels) ==
  UNION { {[k \in 1..n |-> [id |-> k, type |-> f[k]]] : f \in [1..n -> labels]}
          : n \in 0..MaxFaces }

\* cubit.get_entities("surface"), cubit.get_entities("curve")
EntityIds(es) == [k \in 1..Len(es) |-> es[k].id]

\* cubit.get_surface_type(sid), cubit.get_curve_type(cid)
EntityType(es, id) == LET k == CHOOSE k \in 1..Len(es) : es[k].id = id IN es[k].type

\* The type queries a loop over ids makes, one per id, as the log records them.
TypeQueries(api, ids) == [k \in 1..Len(ids) |-> [api |-> api, id |-> ids[k]]]

(***************************************************************************)
(* count_acis_entity_types()                                               *)
(***************************************************************************)
\* A plausible slip in the if/elif chain: cones land in the sphere bucket.
SurfaceBucketSwapped(surf_type) ==
  LET t == Text(surf_type) IN
  IF t = "plane surface" THEN 1
  ELSE IF t = "cone surface" THEN 3
  ELSE IF t = "sphere surface" THEN 3
  ELSE IF t = "torus surface" THEN 4
  ELSE IF t = "spline surface" THEN 5
  ELSE 0

\* The if/elif chain over surf_type: the bucket's position in the returned
\* tuple, 0 when no branch is taken.
SurfaceBucket(surf_type) ==
  LET t == Text(surf_type) IN
  IF t = "plane surface" THEN 1
  ELSE IF t = "cone surface" THEN 2
  ELSE IF t = "sphere surface" THEN 3
  ELSE IF t = "torus surface" THEN 4
  ELSE IF t = "spline surface" THEN 5
  ELSE 0

\* The if/elif chain over curve_type.
CurveBucket(curve_type) ==
  LET t == Text(curve_type) IN
  IF t = "straight curve" THEN 1
  ELSE IF t = "arc curve" THEN 2
  ELSE IF t = "ellipse curve" THEN 3
  ELSE IF t = "spline curve" THEN 4
  ELSE 0

\* for sid in S: from the k-th id on, each id is appended to the list its
\* lower-cased type selects, or to none.
RECURSIVE ScanSurfaces(_, _, _)
ScanSurfaces(S, k, lists) ==
  IF k > Len(S) THEN lists
  ELSE LET b == SurfaceBucket(lower(EntityType(surfaces, S[k]))) IN
       ScanSurfaces(S, k + 1,
                    IF b = 0 THEN lists ELSE [lists EXCEPT ![b] = Append(@, S[k])])

\* for cid in C:
RECURSIVE ScanCurves(_, _, _)
ScanCurves(C, k, lists) ==
  IF k > Len(C) THEN lists
  ELSE LET b == CurveBucket(lower(EntityType(curves, C[k]))) IN
       ScanCurves(C, k + 1,
                  IF b = 0 THEN lists ELSE [lists EXCEPT ![b] = Append(@, C[k])])

\* The nine lines of out_str, each f"<heading>{len( bucket )}\\n".
ReportLines(surf, curve) ==
  << "Number of Plane  Surfaces: " \o Text(str(Len(surf[1]))),
     "Number of Cone   Surfaces: " \o Text(str(Len(surf[2]))),
     "Number of Sphere Surfaces: " \o Text(str(Len(surf[3]))),
     "Number of Torus  Surfaces: " \o Text(str(Len(surf[4]))),
     "Number of Spline Surfaces: " \o Text(str(Len(surf[5]))),
     "Number of Straight Curves: " \o Text(str(Len(curve[1]))),
     "Number of Arc      Curves: " \o Text(str(Len(curve[2]))),
     "Number of Ellipse  Curves: " \o Text(str(Len(curve[3]))),
     "Number of Spline   Curves: " \o Text(str(Len(curve[4]))) >>

\* The whole call: both id queries, one type query per surface and then one
\* per curve, print( out_str ), return the two tuples of lists.  out_str ends
\* its ninth line and print ends the text, so an empty line closes the text.
CountAcisEntityTypes ==
  /\ CanCall
  /\ args' = [fn |-> "count_acis_entity_types"]
  /\ LET S == EntityIds(surfaces)
         C == EntityIds(curves)
         surf == ScanSurfaces(S, 1, <<<<>>, <<>>, <<>>, <<>>, <<>>>>)
         curve == ScanCurves(C, 1, <<<<>>, <<>>, <<>>, <<>>>>)
     IN /\ out' = [surfaces |-> surf, curves |-> curve,
                   printed |-> Append(ReportLines(surf, curve), "")]
        /\ log' = <<[api |-> "get_entities", kind |-> "surface"],
                    [api |-> "get_entities", kind |-> "curve"]>>
                    \o TypeQueries("get_surface_type", S)
                    \o TypeQueries("get_curve_type", C)
  /\ pc' = "returned"
  /\ UNCHANGED <<V, i, vid, spline_surf, hostVars, bookVars>>

AcisInit ==
  /\ NotCalled
  /\ NoLocals
  /\ volumes = <<>> /\ NoGroups
  /\ surfaces \in EntityLists(SurfaceLabels)
  /\ curves \in EntityLists(CurveLabels)
  /\ colors = <<>>
  /\ FactoryTolerances /\ NoBookkeeping

AcisNext == CountAcisEntityTypes

SpecAcis == AcisInit /\ [][AcisNext]_vars

(***************************************************************************)
(* color_spline_surfaces()                                                 *)
(***************************************************************************)
\* f"color surface {sid} red", f"color surface {sid} white"
ColorText(sid, color) == "color surface " \o Text(str(sid)) \o " " \o color

\* f"spline_surfaces add surface {list_to_str( spline_surf )}"
AddSurfacesText(ids) == "spline_surfaces add surface " \o Text(list_to_str(ids))

\* surf_type == "spline surface"
IsSpline(sid) == Text(lower(EntityType(surfaces, sid))) = "spline surface"

ColorCall ==
  /\ CanCall
  /\ args' = [fn |-> "color_spline_surfaces"]
  /\ log' = <<>> /\ V' = <<>> /\ i' = 0 /\ spline_surf' = <<>>
  /\ pc' = "cs_default"
  /\ UNCHANGED <<out, vid, hostVars, bookVars>>

\* cubit.cmd( "color surface all default" )
ColorDefault ==
  /\ pc = "cs_default"
  /\ \/ /\ CmdRan("color surface all default")
        /\ colors' = [sid \in DOMAIN colors |-> "default"]
        /\ pc' = "cs_check"
     \/ /\ CmdRaised("color surface all default")
        /\ colors' = colors
        /\ pc' = "raised"
  /\ UNCHANGED <<args, out, V, i, vid, spline_surf, volumes, groups, surfaces,
                 curves, imprinted, merged, max_gap, max_angle, bookVars>>

\* A plausible slip: the old group is never deleted.
ColorCheckNeverDeletes ==
  /\ pc = "cs_check"
  /\ log' = Append(log, [api |-> "get_id_from_name", name |-> "spline_surfaces",
                         result |-> IdFromName(groups, "spline_surfaces")])
  /\ pc' = "cs_create"
  /\ UNCHANGED <<args, out, V, i, vid, spline_surf, hostVars, bookVars>>

\* if cubit.get_id_from_name( "spline_surfaces" ):
ColorCheck ==
  /\ pc = "cs_check"
  /\ log' = Append(log, [api |-> "get_id_from_name", name |-> "spline_surfaces",
                         result |-> IdFromName(groups, "spline_surfaces")])
  /\ pc' = IF IdFromName(groups, "spline_surfaces") # 0
           THEN "cs_delete" ELSE "cs_create"
  /\ UNCHANGED <<args, out, V, i, vid, spline_surf, hostVars, bookVars>>

\* cubit.cmd( "delete spline_surfaces" )
ColorDelete ==
  /\ pc = "cs_delete"
  /\ \/ /\ CmdRan("delete spline_surfaces")
        /\ groups' = DeleteGroup(groups, "spline_surfaces")
        /\ pc' = "cs_create"
     \/ /\ CmdRaised("delete spline_surfaces")
        /\ groups' = groups
        /\ pc' = "raised"
  /\ UNCHANGED <<args, out, V, i, vid, spline_surf, volumes, surfaces, curves,
                 colors, imprinted, merged, max_gap, max_angle, bookVars>>

\* cubit.cmd( "create group 'spline_surfaces'" )
ColorCreate ==
  /\ pc = "cs_create"
  /\ \/ /\ CmdRan("create group 'spline_surfaces'")
        /\ \E gs \in CreateGroupOutcomes(groups, "spline_surfaces") : groups' = gs
        /\ pc' = "cs_query"
     \/ /\ CmdRaised("create group 'spline_surfaces'")
        /\ groups' = groups
        /\ pc' = "raised"
  /\ UNCHANGED <<args, out, V, i, vid, spline_surf, volumes, surfaces, curves,
                 colors, imprinted, merged, max_gap, max_angle, bookVars>>

\* S = cubit.get_entities("surface");  spline_surf = []
ColorQuery ==
  /\ pc = "cs_query"
  /\ V' = EntityIds(surfaces) /\ i' = 1 /\ spline_surf' = <<>>
  /\ log' = Append(log, [api |-> "get_entities", kind |-> "surface"])
  /\ pc' = "cs_loop"
  /\ UNCHANGED <<args, out, vid, hostVars, bookVars>>

\* One iteration of   for sid in S:   the type is queried, the list grows and
\* then the command is sent.
ColorLoop ==
  /\ pc = "cs_loop"
  /\ i <= Len(V)
  /\ LET color == IF IsSpline(V[i]) THEN "red" ELSE "white"
         asked == Append(log, [api |-> "get_surface_type", id |-> V[i]])
         sent(r) == [api |-> "cmd", text |-> ColorText(V[i], color), raised |-> r]
     IN
     /\ spline_surf' = IF IsSpline(V[i]) THEN Append(spline_surf, V[i])
                       ELSE spline_surf
     /\ \/ /\ log' = Append(asked, sent(FALSE))
           /\ colors' = [colors EXCEPT ![V[i]] = color]
           /\ i' = i + 1 /\ pc' = pc
        \/ /\ log' = Append(asked, sent(TRUE))
           /\ colors' = colors
           /\ i' = i /\ pc' = "raised"
  /\ UNCHANGED <<args, out, V, vid, volumes, groups, surfaces, curves,
                 imprinted, merged, max_gap, max_angle, bookVars>>

\* cubit.cmd( f"spline_surfaces add surface {list_to_str( spline_surf )}" )
ColorAdd ==
  /\ pc = "cs_loop"
  /\ i > Len(V)
  /\ \/ /\ CmdRan(AddSurfacesText(spline_surf))
        /\ groups' = GroupAddSurfaces(groups, "spline_surfaces", spline_surf)
        /\ pc' = "returned"
     \/ /\ CmdRaised(AddSurfacesText(spline_surf))
        /\ groups' = groups
        /\ pc' = "raised"
  /\ UNCHANGED <<args, out, V, i, vid, spline_surf, volumes, surfaces, curves,
                 colors, imprinted, merged, max_gap, max_angle, bookVars>>

\* Groups the model may hold before the call: none named 'spline_surfaces',
\* or one, empty or holding every surface, before or after another group.
ColorGroupsBefore ==
  LET other == [id |-> 1, name |-> "assembly", volumes |-> <<>>, surfaces |-> <<>>]
      old(n, members) == [id |-> n, name |-> "spline_surfaces",
                          volumes |-> <<>>, surfaces |-> members]
  IN { <<>>, <<other>>, <<old(1, <<>>)>>, <<old(1, EntityIds(surfaces))>>,
       <<other, old(2, EntityIds(surfaces))>>,
       <<old(2, EntityIds(surfaces)), other>> }

ColorInit ==
  /\ NotCalled
  /\ NoLocals
  /\ volumes = <<>>
  /\ surfaces \in EntityLists(SurfaceLabels)
  /\ curves = <<>>
  /\ colors \in [Range(EntityIds(surfaces)) -> {"default", "red", "white"}]
  /\ groups \in ColorGroupsBefore
  /\ imprinted = {} /\ merged = {}
  /\ FactoryTolerances /\ NoBookkeeping

ColorNext ==
  \/ ColorCall
  \/ ColorDefault
  \/ ColorCheck
  \/ ColorDelete
  \/ ColorCreate
  \/ ColorQuery
  \/ ColorLoop
  \/ ColorAdd

SpecColor == ColorInit /\ [][ColorNext]_vars

StrNext == ListToStrCall

SpecStr == StrInit /\ [][StrNext]_vars

(***************************************************************************)
(*                              The claims                                 *)
(***************************************************************************)
Fn == args.fn
CmdTexts(l) == [k \in 1..Len(Cmds(l)) |-> Cmds(l)[k].text]
Positions(l, api) == {k \in 1..Len(l) : l[k].api = api}
Decimal(n) == Text(str(n))

\* The value of a string of decimal digits.
RECURSIVE ParseNat(_)
ParseNat(chars) ==
  IF chars = <<>> THEN 0
  ELSE 10 * ParseNat(SubSeq(chars, 1, Len(chars) - 1))
       + ((CHOOSE d \in 1..10 : Digit[d] = chars[Len(chars)]) - 1)

\* The fields of a string between its spaces, as Python's s.split(" ").
RECURSIVE Fields(_)
Fields(s) ==
  IF \A p \in 1..Len(s) : s[p] # " " THEN <<s>>
  ELSE LET p == CHOOSE p \in 1..Len(s) : s[p] = " " /\ \A q \in 1..(p - 1) : s[q] # " "
       IN <<SubSeq(s, 1, p - 1)>> \o Fields(SubSeq(s, p + 1, Len(s)))

\* C5: list_to_str returns the decimal forms of the ids, in input order, with
\* exactly one space between neighbours and none at either end; [1,2,3] gives
\* "1 2 3" and [] gives "".
C5_ListToStrFormat ==
  (pc = "returned" /\ Fn = "list_to_str") =>
    LET ids == args.input_str
        f == Fields(out)
    IN /\ (ids = <<>>) = (out = <<>>)
       /\ ids # <<>> =>
            /\ Len(f) = Len(ids)
            /\ \A k \in 1..Len(ids) :
                 /\ f[k] # <<>>
                 /\ \A p \in 1..Len(f[k]) : f[k][p] \in Range(Digit)
                 /\ Len(f[k]) > 1 => f[k][1] # "0"
                 /\ ParseNat(f[k]) = ids[k]
       /\ ids = <<1, 2, 3>> => Text(out) = "1 2 3"
       /\ ids = <<>> => Text(out) = ""

C5_Witness ==
  /\ pc = "returned" /\ Fn = "list_to_str"
  /\ args.input_str = <<3, 12, 0>>
  /\ Text(out) = "3 12 0"

\* C3: in a call of batch_remove_overlaps_from_volume the max gap and the max
\* angle are each set exactly once, before the overlapping-volumes query and
\* before any remove-overlap command, however many volumes the query returns.
C3_TolerancesSetOnceFirst ==
  (Fn = "batch_remove_overlaps_from_volume") =>
    LET gap == Positions(log, "set_overlap_max_gap")
        angle == Positions(log, "set_overlap_max_angle")
        later == Positions(log, "get_overlapping_volumes_at_volume")
                   \cup Positions(log, "cmd")
    IN /\ Cardinality(gap) <= 1 /\ Cardinality(angle) <= 1
       /\ \A k \in later : \E g \in gap, a \in angle : g < k /\ a < k
       /\ pc \in {"ov_loop", "returned", "raised"} =>
            /\ Cardinality(gap) = 1 /\ Cardinality(angle) = 1
            /\ Cardinality(Positions(log, "get_overlapping_volumes_at_volume")) = 1

C3_Witness ==
  /\ pc = "returned" /\ Fn = "batch_remove_overlaps_from_volume"
  /\ Len(V) = 2
  /\ Len(Cmds(log)) = 2
  /\ log[1].api = "set_overlap_max_gap" /\ log[2].api = "set_overlap_max_angle"

\* C6: a call with target t issues one remove-overlap command for each id the
\* overlapping-volumes query returned, in the order returned, each naming the
\* id and t and modifying t, and no other command.
C6_OneRemovePerOverlap ==
  (Fn = "batch_remove_overlaps_from_volume") =>
    LET t == args.modify_volume_id
        c == CmdTexts(log)
    IN /\ Len(c) <= Len(V)
       /\ \A k \in 1..Len(c) :
            c[k] = "remove overlap volume " \o Decimal(V[k]) \o " " \o Decimal(t)
                     \o " modify volume " \o Decimal(t)
       /\ pc = "returned" => Len(c) = Len(V)

C6_Witness ==
  /\ pc = "returned" /\ Fn = "batch_remove_overlaps_from_volume"
  /\ args.modify_volume_id = 1
  /\ V = <<40, 2>>
  /\ CmdTexts(log) = <<"remove overlap volume 40 1 modify volume 1",
                       "remove overlap volume 2 1 modify volume 1">>

\* C8: once a call of batch_remove_overlaps_from_volume has set them, and after
\* it has returned, the host's max gap and max angle are the call's arguments
\* (the defaults 0.0005 and 5.0 for omitted ones), whatever the host held before.
C8_TolerancesOverwritten ==
  (Fn = "batch_remove_overlaps_from_volume"
     /\ pc \in {"ov_query", "ov_loop", "returned", "raised"}) =>
    /\ max_gap = (IF args.given_gap = None THEN DefaultMaxGap ELSE args.given_gap[1])
    /\ max_angle = (IF args.given_angle = None THEN DefaultMaxAngle
                    ELSE args.given_angle[1])

C8_Witness ==
  /\ pc = "returned" /\ Fn = "batch_remove_overlaps_from_volume"
  /\ args.given_gap = None /\ args.given_angle = None
  /\ tol_before[1] # DefaultMaxGap /\ tol_before[2] # DefaultMaxAngle
  /\ max_gap = DefaultMaxGap /\ max_angle = DefaultMaxAngle

\* The decimal forms of ids with one space between neighbours.
RECURSIVE Spaced(_)
Spaced(ids) ==
  IF ids = <<>> THEN ""
  ELSE IF Len(ids) = 1 THEN Decimal(ids[1])
  ELSE Decimal(ids[1]) \o " " \o Spaced(Tail(ids))

GivenPrefix == IF args.given_prefix = None THEN "part" ELSE args.given_prefix[1]

\* C1: a call of part_volumes_to_part_groups on N volumes issues, for each
\* volume v in turn, "create group '<prefix>_<v>'" and directly after it the
\* command adding v to <prefix>_<v>: N of each and no other command, the prefix
\* being the one given, or "part" when it is omitted.
C1_CreateThenAddPerVolume ==
  (Fn = "part_volumes_to_part_groups") =>
    LET c == CmdTexts(log)
        N == Len(volumes)
    IN /\ Len(c) <= 2 * N
       /\ \A k \in 1..N :
            /\ 2 * k - 1 <= Len(c) =>
                 c[2 * k - 1] = "create group '" \o GivenPrefix \o "_"
                                  \o Decimal(volumes[k]) \o "'"
            /\ 2 * k <= Len(c) =>
                 c[2 * k] = GivenPrefix \o "_" \o Decimal(volumes[k])
                              \o " add volume " \o Decimal(volumes[k])
       /\ pc = "returned" => Len(c) = 2 * N

C1_Witness ==
  /\ pc = "returned" /\ Fn = "part_volumes_to_part_groups"
  /\ args.given_prefix = <<"component">>
  /\ Len(volumes) = 3
  /\ CmdTexts(log)[5] = "create group 'component_40'"
  /\ CmdTexts(log)[6] = "component_40 add volume 40"

\* The commands imprint_merge_each_group owes to groups gs, in order.
RECURSIVE ImprintMergeOwed(_)
ImprintMergeOwed(gs) ==
  IF gs = <<>> THEN <<>>
  ELSE (IF Len(gs[1].volumes) > 1
        THEN <<"imprint vol " \o Spaced(gs[1].volumes),
               "merge vol " \o Spaced(gs[1].volumes)>>
        ELSE <<>>) \o ImprintMergeOwed(Tail(gs))

\* C2: a call of imprint_merge_each_group issues, for each group of more than
\* one volume, one imprint command directly followed by one merge command, both
\* listing the group's volumes in the host's order with single spaces between
\* them, and no command for a group of no or one volume.
C2_ImprintMergePerGroup ==
  (Fn = "imprint_merge_each_group") =>
    LET c == CmdTexts(log)
        owed == ImprintMergeOwed(groups)
    IN /\ Len(c) <= Len(owed)
       /\ c = SubSeq(owed, 1, Len(c))
       /\ pc = "returned" => c = owed

C2_Witness ==
  /\ pc = "returned" /\ Fn = "imprint_merge_each_group"
  /\ \E k \in 1..Len(groups) : Len(groups[k].volumes) = 1
  /\ CmdTexts(log) = <<"imprint vol 2 40 1", "merge vol 2 40 1">>

\* C9: when the host raises on a command of part_volumes_to_part_groups or of
\* imprint_merge_each_group, the call ends with that error: the command is the
\* last one issued (no retry, no later iteration), and what earlier iterations
\* did to the host (groups with their volumes, imprints, merges) is still there.
C9_ErrorEndsCallNoRollback ==
  (Fn \in {"part_volumes_to_part_groups", "imprint_merge_each_group"}) =>
    /\ (pc = "raised") = (\E k \in Positions(log, "cmd") : log[k].raised)
    /\ \A k \in Positions(log, "cmd") : log[k].raised => k = Len(log)
    /\ (pc = "raised" /\ Fn = "part_volumes_to_part_groups") =>
         /\ Len(Cmds(log)) \in {2 * i - 1, 2 * i}
         /\ \A j \in 1..(i - 1) :
              \E g \in 1..Len(groups) :
                /\ groups[g].name = GivenPrefix \o "_" \o Decimal(V[j])
                /\ V[j] \in Range(groups[g].volumes)
    /\ (pc = "raised" /\ Fn = "imprint_merge_each_group") =>
         \A j \in 1..(i - 1) :
           Len(groups[j].volumes) > 1 =>
             Range(groups[j].volumes) \subseteq (imprinted \cap merged)

C9_Witness ==
  /\ pc = "raised" /\ Fn = "part_volumes_to_part_groups"
  /\ i = 2
  /\ log[Len(log)].raised
  /\ CmdTexts(log) = <<"create group 'part_1'", "part_1 add volume 1",
                       "create group 'part_2'", "part_2 add volume 2">>
  /\ \E g \in 1..Len(groups) : groups[g].name = "part_1" /\ groups[g].volumes = <<1>>

\* C10: after part_volumes_to_part_groups on a model without groups every group
\* holds exactly one volume, and imprint_merge_each_group called next, with no
\* other host operation in between, issues no command.
C10_FreshGroupsNeedNoImprint ==
  /\ (Fn = "part_volumes_to_part_groups" /\ pc = "returned" /\ clean) =>
       /\ Len(groups) = Len(volumes)
       /\ \A g \in 1..Len(groups) : Len(groups[g].volumes) = 1
  /\ (Fn = "imprint_merge_each_group" /\ clean) => Cmds(log) = <<>>

C10_Witness ==
  /\ Fn = "imprint_merge_each_group" /\ pc = "returned" /\ clean
  /\ Len(groups) = 3
  /\ Len(log) = 4

\* The ids of the entities whose lower-cased type label reads `label`.
IdsOfType(es, label) == {es[k].id : k \in {n \in 1..Len(es) : Text(lower(es[n].type)) = label}}

SurfaceNames == <<"plane surface", "cone surface", "sphere surface",
                  "torus surface", "spline surface">>
CurveNames == <<"straight curve", "arc curve", "ellipse curve", "spline curve">>
Headings == <<"Number of Plane  Surfaces: ", "Number of Cone   Surfaces: ",
              "Number of Sphere Surfaces: ", "Number of Torus  Surfaces: ",
              "Number of Spline Surfaces: ", "Number of Straight Curves: ",
              "Number of Arc      Curves: ", "Number of Ellipse  Curves: ",
              "Number of Spline   Curves: ">>

\* C4: count_acis_entity_types puts each surface in the bucket of its type
\* (plane, cone, sphere, torus, spline) and each curve in the bucket of its type
\* (straight, arc, ellipse, spline), types being compared in lower case; each
\* entity is listed once at most, an entity of any other type in no bucket, and
\* the nine printed counts are the sizes of the returned buckets; the type of
\* each entity is asked of the host once.
C4_BucketsAndCounts ==
  (pc = "returned" /\ Fn = "count_acis_entity_types") =>
    LET sb == out.surfaces
        cb == out.curves
        all == sb \o cb
    IN /\ Len(sb) = 5 /\ Len(cb) = 4
       /\ \A b \in 1..5 : Range(sb[b]) = IdsOfType(surfaces, SurfaceNames[b])
       /\ \A b \in 1..4 : Range(cb[b]) = IdsOfType(curves, CurveNames[b])
       /\ \A b \in 1..9 : Injective(all[b])
       /\ \A a, b \in 1..5 : a # b => Range(sb[a]) \cap Range(sb[b]) = {}
       /\ \A a, b \in 1..4 : a # b => Range(cb[a]) \cap Range(cb[b]) = {}
       /\ \A k \in 1..Len(surfaces) :
            LET t == Text(lower(surfaces[k].type)) IN
            (\A b \in 1..5 : t # SurfaceNames[b])
              => \A b \in 1..5 : surfaces[k].id \notin Range(sb[b])
       /\ \A k \in 1..Len(curves) :
            LET t == Text(lower(curves[k].type)) IN
            (\A b \in 1..4 : t # CurveNames[b])
              => \A b \in 1..4 : curves[k].id \notin Range(cb[b])
       /\ Len(out.printed) = 10 /\ out.printed[10] = ""
       /\ \A b \in 1..9 : out.printed[b] = Headings[b] \o Decimal(Len(all[b]))
       /\ \A k \in 1..Len(surfaces) :
            Cardinality({n \in Positions(log, "get_surface_type") :
                           log[n].id = surfaces[k].id}) = 1
       /\ \A k \in 1..Len(curves) :
            Cardinality({n \in Positions(log, "get_curve_type") :
                           log[n].id = curves[k].id}) = 1

C4_Witness ==
  /\ pc = "returned" /\ Fn = "count_acis_entity_types"
  /\ Len(surfaces) = 2 /\ Len(curves) = 2
  /\ Text(surfaces[1].type) = "Spline Surface"
  /\ Text(surfaces[2].type) = "best fit surface"
  /\ Text(curves[1].type) = "arc curve"
  /\ Text(curves[2].type) = "Arc Curve"
  /\ out.surfaces = << <<>>, <<>>, <<>>, <<>>, <<1>> >>
  /\ out.curves = << <<>>, <<1, 2>>, <<>>, <<>> >>
  /\ out.printed[5] = "Number of Spline Surfaces: 1"
  /\ out.printed[7] = "Number of Arc      Curves: 2"
  /\ Len(log) = 6

\* C7: when color_spline_surfaces has returned, every surface is red if its
\* type is spline surface and white otherwise, and there is one group named
\* 'spline_surfaces', holding exactly the spline surfaces; a group of that name
\* found before is deleted ahead of the create command, and no delete command is
\* issued when none was found.
C7_SplineColorsAndGroup ==
  (pc = "returned" /\ Fn = "color_spline_surfaces") =>
    LET splines == IdsOfType(surfaces, "spline surface")
        named == {g \in 1..Len(groups) : groups[g].name = "spline_surfaces"}
        c == CmdTexts(log)
        deletes == {k \in 1..Len(c) : c[k] = "delete spline_surfaces"}
        creates == {k \in 1..Len(c) : c[k] = "create group 'spline_surfaces'"}
        found == \E k \in Positions(log, "get_id_from_name") : log[k].result # 0
    IN /\ \A k \in 1..Len(surfaces) :
            colors[surfaces[k].id] =
              (IF surfaces[k].id \in splines THEN "red" ELSE "white")
       /\ Cardinality(named) = 1
       /\ \A g \in named : Range(groups[g].surfaces) = splines
       /\ Cardinality(creates) = 1
       /\ Cardinality(deletes) = (IF found THEN 1 ELSE 0)
       /\ \A d \in deletes, k \in creates : d < k

C7_Witness ==
  /\ pc = "returned" /\ Fn = "color_spline_surfaces"
  /\ Len(surfaces) = 2
  /\ Text(surfaces[1].type) = "plane surface"
  /\ Text(surfaces[2].type) = "Spline Surface"
  /\ colors = <<"white", "red">>
  /\ CmdTexts(log) = <<"color surface all default", "delete spline_surfaces",
                       "create group 'spline_surfaces'", "color surface 1 white",
                       "color surface 2 red", "spline_surfaces add surface 2">>
  /\ Len(log) = 10
  /\ \E g \in 1..Len(groups) :
       groups[g].name = "spline_surfaces" /\ groups[g].surfaces = <<2>>

=============================================================================
